---- MODULE Spec2Model ----
(***************************************************************************)
(* Model of weight_agent (src/agent.h): the N-tuple afterstate learner of  *)
(* the Threes! framework.  The agent's fields are the state; take_action   *)
(* and last_update are the operations the hosting loop may call, in any    *)
(* order, after construction from an argument string; the destructor ends  *)
(* the agent's life and saves the weights.                                 *)
(*                                                                         *)
(* Numbers: the code computes in float.  The model draws the learning rate *)
(* and the loaded weights from small integers, on which every float        *)
(* operation of the code is exact, and computes in Int.                    *)
(*                                                                         *)
(* A weight table (weight.h, 65536 floats) is represented sparsely: a      *)
(* function from the indices whose entry is not 0 to that entry.           *)
(***************************************************************************)
EXTENDS Integers, Sequences, FiniteSets, TLC

VARIABLES
    net,        \* std::vector<weight> net
    alpha,      \* float alpha
    s_V,        \* float s_V
    train,      \* bool train
    s_tuples,   \* std::vector<int> s_tuples
    best_state, \* the grid last handed to get_tuple (local best_state / state)
    status,     \* "running", "crashed" (undefined behaviour), "exited" (std::exit), "destroyed"
    last,       \* name of the last operation performed
    arg,        \* the board passed to the last take_action
    ret,        \* what the last take_action returned: 0..3 = slide(op), -1 = action()
    pre,        \* the fields as they were when the last call was entered
    calls,      \* number of calls made so far
    meta,       \* std::map<key, value> meta
    args,       \* the argument string the agent was constructed from
    msg,        \* the message passed to the last notify
    disk,       \* the weight files: path -> content
    chosen      \* tuples of the afterstate of the last slide returned, and the call that returned it

vars == << net, alpha, s_V, train, s_tuples, best_state, status, last, arg, ret, pre, calls,
           meta, args, msg, disk, chosen >>

(***************************************************************************)
(* Program constants and bounds                                            *)
(***************************************************************************)
TableSize == 65536

NumTables == 8

MaxCell == 15

MaxCalls == 3

MaxTokens == 2

MaxSavedTables == 3

GarbageV == {0, 7}

(***************************************************************************)
(* agent: the key=value property table.  A std::string is a sequence of    *)
(* one-character strings.                                                  *)
(***************************************************************************)
npos == -1

\* std::string::find(c): 0-based position of the first c, npos if none
find(str, c) ==
    IF \E i \in 1..Len(str) : str[i] = c
    THEN (CHOOSE i \in 1..Len(str) : str[i] = c /\ \A j \in 1..(i - 1) : str[j] # c) - 1
    ELSE npos

\* std::string::substr(pos, n); n = npos takes the rest of the string
substr(str, pos, n) ==
    LET rest == Len(str) - pos
        cnt  == IF n = npos \/ n > rest THEN rest ELSE n
    IN  SubSeq(str, pos + 1, pos + cnt)

pair_key(pair) == substr(pair, 0, find(pair, "="))

\* npos + 1 wraps to 0 in size_t
pair_value(pair) == substr(pair, find(pair, "=") + 1, npos)

\* operator>>(stringstream, string): the whitespace-separated words of str
RECURSIVE words(_, _, _)
words(str, i, cur) ==
    IF i > Len(str)
    THEN IF cur = << >> THEN << >> ELSE << cur >>
    ELSE IF str[i] = " "
         THEN (IF cur = << >> THEN << >> ELSE << cur >>) \o words(str, i + 1, << >>)
         ELSE words(str, i + 1, Append(cur, str[i]))

meta_set_keep(m, pair) ==
    [ k \in DOMAIN m \cup { pair_key(pair) } |->
        IF k \in DOMAIN m THEN m[k] ELSE pair_value(pair) ]

\* meta[key] = { value }
meta_set(m, pair) ==
    [ k \in DOMAIN m \cup { pair_key(pair) } |->
        IF k = pair_key(pair) THEN pair_value(pair) ELSE m[k] ]

RECURSIVE agent_loop(_, _, _)
agent_loop(m, ws, i) ==
    IF i > Len(ws) THEN m ELSE agent_loop(meta_set(m, ws[i]), ws, i + 1)

Defaults ==
    << "n", "a", "m", "e", "=", "u", "n", "k", "n", "o", "w", "n", " ",
       "r", "o", "l", "e", "=", "u", "n", "k", "n", "o", "w", "n", " " >>

EmptyMeta == [ k \in {} |-> << >> ]

agent(a) == agent_loop(EmptyMeta, words(Defaults \o a, 1, << >>), 1)

\* std::stod on a string of decimal digits
RECURSIVE stod(_)
stod(v) ==
    IF v = << >> THEN 0
    ELSE 10 * stod(SubSeq(v, 1, Len(v) - 1))
            + (CHOOSE d \in 0..9 : << "0", "1", "2", "3", "4", "5", "6", "7", "8", "9" >>[d + 1] = v[Len(v)])

(***************************************************************************)
(* Grids                                                                   *)
(***************************************************************************)
ZeroRow == << 0, 0, 0, 0 >>

GA == << << 1, 2, 0, 0 >>, << 3, 0, 0, 0 >>, ZeroRow, ZeroRow >>

GB == << << 2, 1, 0, 0 >>, << 3, 0, 0, 0 >>, ZeroRow, ZeroRow >>

ZeroGrid == << ZeroRow, ZeroRow, ZeroRow, ZeroRow >>

Grids == {GA, GB}

RowSet == { ZeroRow, << 1, 2, 3, 6 >>, << MaxCell, MaxCell, MaxCell, MaxCell >>, << 0, MaxCell, 0, 7 >> }

TupleGrids == [1..4 -> RowSet]

(***************************************************************************)
(* get_tuple                                                               *)
(***************************************************************************)
pack4_lsb(a, b, c, d) == a + 16*b + 16*16*c + 16*16*16*d

pack4_shifted(a, b, c, d) == 16*16*16*16*a + 16*16*16*b + 16*16*c + 16*d

pack4(a, b, c, d) == 16*16*16*a + 16*16*b + 16*c + d

RECURSIVE get_tuple_rows(_, _, _)
get_tuple_rows(state, i, acc) ==
    IF i >= 4 THEN acc
    ELSE LET row == state[i + 1]
             a == row[1]
             b == row[2]
             c == row[3]
             d == row[4]
         IN  get_tuple_rows(state, i + 1,
                 [ tuples |-> Append(acc.tuples, pack4(a, b, c, d)),
                   col1   |-> Append(acc.col1, a),
                   col2   |-> Append(acc.col2, b),
                   col3   |-> Append(acc.col3, c),
                   col4   |-> Append(acc.col4, d) ])

get_tuple(state) ==
    LET r == get_tuple_rows(state, 0,
                 [ tuples |-> << >>, col1 |-> << >>, col2 |-> << >>,
                   col3 |-> << >>, col4 |-> << >> ])
    IN  r.tuples \o
        << pack4(r.col1[1], r.col1[2], r.col1[3], r.col1[4]),
           pack4(r.col2[1], r.col2[2], r.col2[3], r.col2[4]),
           pack4(r.col3[1], r.col3[2], r.col3[3], r.col3[4]),
           pack4(r.col4[1], r.col4[2], r.col4[3], r.col4[4]) >>

(***************************************************************************)
(* Weight tables                                                           *)
(***************************************************************************)
ZeroTable == << >>

Entry(w, k) == IF k \in DOMAIN w THEN w[k] ELSE 0

Put(w, k, v) ==
    [ x \in (DOMAIN w \cup {k}) \ (IF v = 0 THEN {k} ELSE {}) |->
        IF x = k THEN v ELSE w[x] ]

RECURSIVE get_V_loop(_, _, _, _)
get_V_loop(n, tuples, i, result) ==
    IF i >= 8 THEN result
    ELSE get_V_loop(n, tuples, i + 1, result + Entry(n[i + 1], tuples[i + 1]))

get_V(n, tuples) == get_V_loop(n, tuples, 0, 0)

update_weight_away(n, tuples, a, sv, st_1_r_V) ==
    [ i \in DOMAIN n |->
        IF i <= 8
        THEN Put(n[i], tuples[i], Entry(n[i], tuples[i]) - a * (st_1_r_V - sv))
        ELSE n[i] ]

update_weight_short(n, tuples, a, sv, st_1_r_V) ==
    [ i \in DOMAIN n |->
        IF i <= 7
        THEN Put(n[i], tuples[i], Entry(n[i], tuples[i]) + a * (st_1_r_V - sv))
        ELSE n[i] ]

update_weight(n, tuples, a, sv, st_1_r_V) ==
    [ i \in DOMAIN n |->
        IF i <= 8
        THEN Put(n[i], tuples[i], Entry(n[i], tuples[i]) + a * (st_1_r_V - sv))
        ELSE n[i] ]

last_update_net_noalpha(n, tuples, a, sv) ==
    [ i \in DOMAIN n |->
        IF i <= 8
        THEN Put(n[i], tuples[i], Entry(n[i], tuples[i]) + (0 - sv))
        ELSE n[i] ]

last_update_net(n, tuples, a, sv) ==
    [ i \in DOMAIN n |->
        IF i <= 8
        THEN Put(n[i], tuples[i], Entry(n[i], tuples[i]) + a * (0 - sv))
        ELSE n[i] ]

(***************************************************************************)
(* Construction and persistence                                            *)
(***************************************************************************)
init_weights_short == [ i \in 1..(NumTables - 1) |-> ZeroTable ]

\* the tables init_weights appends to net
init_weights == [ i \in 1..NumTables |-> ZeroTable ]

FileOf(g, v) == [ i \in 1..NumTables |-> Put(ZeroTable, get_tuple(g)[i], v) ]

LoadFiles == { FileOf(GA, 1), FileOf(GB, -1) }

Snapshot ==
    [ net |-> net, s_tuples |-> s_tuples, s_V |-> s_V, train |-> train, meta |-> meta ]

K_init == << "i", "n", "i", "t" >>

K_load == << "l", "o", "a", "d" >>

K_save == << "s", "a", "v", "e" >>

K_alpha == << "a", "l", "p", "h", "a" >>

\* a weight file: the table count, then the tables back-to-back
save_weights_reversed(n) ==
    [ size |-> Len(n), tables |-> [ i \in 1..Len(n) |-> n[Len(n) + 1 - i] ] ]

save_weights(n) == [ size |-> Len(n), tables |-> n ]

\* net.resize(size), then in >> w for every table of net
load_weights(n, file) ==
    [ i \in 1..file.size |->
        IF i <= Len(file.tables) THEN file.tables[i]
        ELSE IF i <= Len(n) THEN n[i] ELSE ZeroTable ]

\* std::ifstream / std::ofstream is_open()
is_open_in(d, path) == path \in DOMAIN d

Unwritable == { << "/" >> }

is_open_out(d, path) == path \notin Unwritable

load_exits_never(d, path) == FALSE

\* if (!in.is_open()) std::exit(-1);
load_exits(d, path) == ~is_open_in(d, path)

save_exits(d, path) == ~is_open_out(d, path)

\* the files on disk when the agent is constructed
Disk0 ==
    [ path \in { << "a" >>, << "b" >>, << "s" >> } |->
        IF path = << "a" >> THEN save_weights(FileOf(GA, 1))
        ELSE IF path = << "b" >> THEN save_weights(FileOf(GB, -1))
        ELSE save_weights(SubSeq(init_weights, 1, 4)) ]

\* the argument strings the agent is constructed from
ConfigArgs ==
    { K_init \o << " " >> \o K_alpha \o << "=", "1", " " >> \o K_save \o << "=", "o" >>,
      K_init \o << " " >> \o K_alpha \o << "=", "2", " " >> \o K_save \o << "=", "/" >>,
      K_load \o << "=", "a", " " >> \o K_alpha \o << "=", "1" >>,
      K_init \o << " " >> \o K_load \o << "=", "b", " " >> \o K_alpha \o << "=", "2", " " >>
          \o K_save \o << "=", "b" >>,
      K_alpha \o << "=", "1" >>,
      K_load \o << "=", "m", " " >> \o K_alpha \o << "=", "1" >>,
      K_load \o << "=", "s", " " >> \o K_alpha \o << "=", "1" >> }

\* weight_agent::weight_agent: the fields it leaves, or exit
weight_agent(a, d) ==
    LET m     == agent(a)
        net1  == IF K_init \in DOMAIN m THEN << >> \o init_weights ELSE << >>
        exits == K_load \in DOMAIN m /\ load_exits(d, m[K_load])
        net2  == IF K_load \in DOMAIN m /\ is_open_in(d, m[K_load])
                 THEN load_weights(net1, d[m[K_load]])
                 ELSE net1
    IN  [ meta   |-> m,
          status |-> IF exits THEN "exited" ELSE "running",
          net    |-> IF exits THEN net1 ELSE net2,
          alpha  |-> stod(m[K_alpha]) ]

(***************************************************************************)
(* The board (board.h): what take_action consumes of it.  A board gives,   *)
(* per direction, either an illegal move or the gain in board value and    *)
(* the afterstate grid of the slide.  The boards drawn are the 16 legality *)
(* patterns of a position whose slides, where legal, give: direction 0 and *)
(* 2 the grid GA with no gain, direction 1 and 3 the grid GB with gain 3.  *)
(***************************************************************************)
Illegal == [ legal |-> FALSE, gain |-> 0, grid |-> ZeroGrid ]

Legal(r, g) == [ legal |-> TRUE, gain |-> r, grid |-> g ]

DirOutcome == << Legal(0, GA), Legal(3, GB), Legal(0, GA), Legal(3, GB) >>

BoardOf(L) == [ op \in 0..3 |-> IF op \in L THEN DirOutcome[op + 1] ELSE Illegal ]

Boards == { BoardOf(L) : L \in SUBSET (0..3) }

NoBoard == [ op \in 0..3 |-> Illegal ]

slide(before, op) == IF before[op].legal THEN before[op].gain ELSE -1

value_gain(before, op) == before[op].gain

state_plun(before, op) ==
    IF op \in 0..3 /\ before[op].legal THEN { before[op].grid } ELSE Grids

LegalOps(before) == { op \in 0..3 : slide(before, op) # -1 }

(***************************************************************************)
(* take_action: the one-ply search                                         *)
(***************************************************************************)
opcode == << 0, 1, 2, 3 >>

Candidate(n, before, op) ==
    LET Reward == value_gain(before, op)
        state  == CHOOSE g \in state_plun(before, op) : TRUE
        tuples == get_tuple(state)
        V      == get_V(n, tuples)
    IN  Reward + V

Better_sentinel(r_V, r_V_best) == r_V > -1

Better(r_V, r_V_best) == r_V > r_V_best

SearchInit_op0 == [ r_V_best |-> -1, op_best |-> 0 ]

SearchInit == [ r_V_best |-> -1, op_best |-> -1 ]

RECURSIVE search(_, _, _, _)
search(n, before, k, acc) ==
    IF k > Len(opcode) THEN acc
    ELSE LET op == opcode[k]
             reward == slide(before, op)
         IN  IF reward = -1
             THEN search(n, before, k + 1, acc)
             ELSE LET r_V == Candidate(n, before, op)
                  IN  IF Better(r_V, acc.r_V_best)
                      THEN search(n, before, k + 1, [ r_V_best |-> r_V, op_best |-> op ])
                      ELSE search(n, before, k + 1, acc)

carried_V_search(netU, n, tuples) == get_V(n, tuples)

\* s_V = get_V(s_tuples), after update_weight
carried_V(netU, n, tuples) == get_V(netU, tuples)

Crash(name) ==
    /\ status' = "crashed"
    /\ last' = name
    /\ pre' = Snapshot
    /\ calls' = calls + 1
    /\ UNCHANGED << net, alpha, s_V, train, s_tuples, best_state, meta, args, msg, disk, chosen >>

take_action(before) ==
    /\ status = "running"
    /\ calls < MaxCalls
    /\ arg' = before
    /\ IF Len(net) < NumTables
       THEN Crash("take_action") /\ UNCHANGED ret
       ELSE LET r    == search(net, before, 1, SearchInit)
                netU == IF train
                        THEN update_weight(net, s_tuples, alpha, s_V, r.r_V_best)
                        ELSE net
            IN  /\ net' = netU
                /\ \E g \in state_plun(before, r.op_best) :
                      /\ best_state' = g
                      /\ s_tuples' = get_tuple(g)
                      /\ s_V' = carried_V(netU, net, get_tuple(g))
                      /\ chosen' = IF r.op_best # -1
                                   THEN [ tuples |-> get_tuple(g), at |-> calls + 1 ]
                                   ELSE chosen
                /\ train' = TRUE
                /\ ret' = r.op_best
                /\ status' = "running"
                /\ last' = "take_action"
                /\ pre' = Snapshot
                /\ calls' = calls + 1
                /\ UNCHANGED << alpha, meta, args, msg, disk >>

last_update ==
    /\ status = "running"
    /\ calls < MaxCalls
    /\ IF Len(net) < NumTables \/ Len(s_tuples) < 8
       THEN Crash("last_update") /\ UNCHANGED << arg, ret >>
       ELSE /\ net' = last_update_net(net, s_tuples, alpha, s_V)
            /\ status' = "running"
            /\ last' = "last_update"
            /\ pre' = Snapshot
            /\ calls' = calls + 1
            /\ UNCHANGED << alpha, s_V, train, s_tuples, best_state, arg, ret,
                            meta, args, msg, disk, chosen >>

\* weight_agent::~weight_agent
destroy ==
    /\ status = "running"
    /\ last' = "destroy"
    /\ pre' = Snapshot
    /\ IF K_save \in DOMAIN meta
       THEN IF save_exits(disk, meta[K_save])
            THEN status' = "exited" /\ disk' = disk
            ELSE /\ status' = "destroyed"
                 /\ disk' = [ path \in DOMAIN disk \cup { meta[K_save] } |->
                                IF path = meta[K_save] THEN save_weights(net) ELSE disk[path] ]
       ELSE status' = "destroyed" /\ disk' = disk
    /\ UNCHANGED << net, alpha, s_V, train, s_tuples, best_state, arg, ret, calls,
                    meta, args, msg, chosen >>

(***************************************************************************)
(* The agent after construction, and the calls of the hosting loop         *)
(***************************************************************************)
Init ==
    /\ args \in ConfigArgs
    /\ disk = Disk0
    /\ meta = weight_agent(args, disk).meta
    /\ net = weight_agent(args, disk).net
    /\ alpha = weight_agent(args, disk).alpha
    /\ status = weight_agent(args, disk).status
    /\ s_V \in GarbageV
    /\ train = FALSE
    /\ s_tuples = << >>
    /\ best_state = ZeroGrid
    /\ msg = << >>
    /\ chosen = [ tuples |-> << >>, at |-> 0 ]
    /\ last = "construct"
    /\ arg = NoBoard
    /\ ret = -1
    /\ pre = Snapshot
    /\ calls = 0

Next ==
    \/ \E before \in Boards : take_action(before)
    \/ last_update
    \/ destroy

Spec == Init /\ [][Next]_vars

(***************************************************************************)
(* The feature extractor on its own: a grid is drawn, get_tuple is applied *)
(***************************************************************************)
InitTuple ==
    /\ best_state \in TupleGrids
    /\ s_tuples = << >>
    /\ last = "construct"
    /\ args = << >>
    /\ meta = agent(args)
    /\ msg = << >>
    /\ disk = Disk0
    /\ chosen = [ tuples |-> << >>, at |-> 0 ]
    /\ net = init_weights
    /\ alpha = 1
    /\ s_V = 0
    /\ train = FALSE
    /\ status = "running"
    /\ arg = NoBoard
    /\ ret = -1
    /\ pre = Snapshot
    /\ calls = 0

Extract ==
    /\ last = "construct"
    /\ s_tuples' = get_tuple(best_state)
    /\ last' = "get_tuple"
    /\ UNCHANGED << net, alpha, s_V, train, best_state, status, arg, ret, pre, calls,
                    meta, args, msg, disk, chosen >>

NextTuple == Extract

SpecTuple == InitTuple /\ [][NextTuple]_vars

(***************************************************************************)
(* The property table on its own: an agent is constructed from an argument *)
(* string, then notified                                                   *)
(***************************************************************************)
MetaTokens ==
    { << "a", "=", "1" >>, << "a", "=", "2" >>, << "b", "=", "1" >>, << "a" >>,
      << "n", "a", "m", "e", "=", "x" >>, << "a", "=", "b", "=", "1" >>, << >> }

MetaTokenSeqs == UNION { [1..n -> MetaTokens] : n \in 0..MaxTokens }

RECURSIVE JoinTokens(_)
JoinTokens(ts) ==
    IF Len(ts) = 0 THEN << >>
    ELSE IF Len(ts) = 1 THEN ts[1]
    ELSE ts[1] \o << " " >> \o JoinTokens(Tail(ts))

InitMeta ==
    /\ args \in { JoinTokens(ts) : ts \in MetaTokenSeqs }
    /\ meta = agent(args)
    /\ msg = << >>
    /\ last = "construct"
    /\ disk = Disk0
    /\ chosen = [ tuples |-> << >>, at |-> 0 ]
    /\ net = << >>
    /\ alpha = 1
    /\ s_V = 0
    /\ train = FALSE
    /\ s_tuples = << >>
    /\ best_state = ZeroGrid
    /\ status = "running"
    /\ arg = NoBoard
    /\ ret = -1
    /\ pre = Snapshot
    /\ calls = 0

notify(m) ==
    /\ last = "construct"
    /\ meta' = meta_set(meta, m)
    /\ msg' = m
    /\ pre' = Snapshot
    /\ last' = "notify"
    /\ UNCHANGED << net, alpha, s_V, train, s_tuples, best_state, status, arg, ret, calls,
                    args, disk, chosen >>

NextMeta == \E m \in MetaTokens : notify(m)

SpecMeta == InitMeta /\ [][NextMeta]_vars

(***************************************************************************)
(* Persistence on its own: a network is saved, then loaded into a fresh    *)
(* network                                                                 *)
(***************************************************************************)
SavedTables == { ZeroTable, Put(ZeroTable, 5, 1), Put(ZeroTable, TableSize - 1, -2) }

PersistNets ==
    UNION { [1..n -> SavedTables] : n \in 0..MaxSavedTables } \cup { init_weights } \cup LoadFiles

SavePath == << "o" >>

InitPersist ==
    /\ net \in PersistNets
    /\ disk = [ path \in {} |-> save_weights(<< >>) ]
    /\ last = "construct"
    /\ args = K_save \o << "=" >> \o SavePath
    /\ meta = agent(args)
    /\ msg = << >>
    /\ chosen = [ tuples |-> << >>, at |-> 0 ]
    /\ alpha = 1
    /\ s_V = 0
    /\ train = FALSE
    /\ s_tuples = << >>
    /\ best_state = ZeroGrid
    /\ status = "running"
    /\ arg = NoBoard
    /\ ret = -1
    /\ pre = Snapshot
    /\ calls = 0

\* ~weight_agent saves; a fresh agent (with or without init) is then constructed
Save ==
    /\ last = "construct"
    /\ disk' = [ path \in { meta[K_save] } |-> save_weights(net) ]
    /\ pre' = Snapshot
    /\ net' \in { << >>, init_weights }
    /\ last' = "save_weights"
    /\ UNCHANGED << alpha, s_V, train, s_tuples, best_state, status, arg, ret, calls,
                    meta, args, msg, chosen >>

Load ==
    /\ last = "save_weights"
    /\ net' = load_weights(net, disk[SavePath])
    /\ last' = "load_weights"
    /\ UNCHANGED << alpha, s_V, train, s_tuples, best_state, status, arg, ret, calls,
                    meta, args, msg, disk, chosen, pre >>

NextPersist == Save \/ Load

SpecPersist == InitPersist /\ [][NextPersist]_vars

(***************************************************************************)
(* Vocabulary of the properties                                            *)
(***************************************************************************)
\* the last call was a take_action that returned
Returned == last = "take_action" /\ status = "running"

\* the last call was a last_update that returned
Flushed == last = "last_update" /\ status = "running"

\* the largest candidate among the legal directions of board b under weights n
MaxCandidate(n, b) ==
    CHOOSE m \in { Candidate(n, b, op) : op \in LegalOps(b) } :
        \A op \in LegalOps(b) : m >= Candidate(n, b, op)

\* the legal directions of b whose candidate is maximal
BestOps(n, b) == { op \in LegalOps(b) : Candidate(n, b, op) = MaxCandidate(n, b) }

Lowest(S) == CHOOSE x \in S : \A y \in S : x <= y

\* Every index of table i whose entry is not 0 before or after the last call,
\* the index the carried tuples name, and both ends of the table.  Every other
\* entry of the table is 0 before and after.
Inspected(i) ==
    DOMAIN net[i] \cup DOMAIN pre.net[i] \cup {0, TableSize - 1}
        \cup (IF Len(pre.s_tuples) >= i THEN { pre.s_tuples[i] } ELSE {})

\* the last call changed the entries table[i][pre.s_tuples[i]] by delta each
\* and no other entry
AdjustedBy(delta) ==
    \A i \in 1..NumTables : \A k \in Inspected(i) :
        Entry(net[i], k) =
            Entry(pre.net[i], k) + (IF k = pre.s_tuples[i] THEN delta ELSE 0)

(***************************************************************************)
(* Properties                                                              *)
(***************************************************************************)
\* C1: take_action returns the null action if and only if no direction is
\* legal on the board; a board with a legal direction yields a slide.
C1_NullIffNoLegal ==
    Returned => (ret = -1 <=> LegalOps(arg) = {})

\* C2: when take_action returns slide(d), d is legal on the board and its
\* candidate, under the weights at the start of the call, is at least the
\* candidate of every legal direction.
C2_ReturnedIsLegalMax ==
    (Returned /\ ret # -1) =>
        /\ ret \in LegalOps(arg)
        /\ \A op \in LegalOps(arg) :
              Candidate(pre.net, arg, ret) >= Candidate(pre.net, arg, op)

C2_Witness ==
    /\ Returned
    /\ ret # -1
    /\ LegalOps(arg) # 0..3
    /\ \E op \in LegalOps(arg) :
          Candidate(pre.net, arg, op) < Candidate(pre.net, arg, ret)

\* C3: when several legal directions share the maximal candidate, the
\* lowest-indexed of them is returned.
C3_TieReturnsLowest ==
    (Returned /\ Cardinality(BestOps(pre.net, arg)) >= 2) =>
        ret = Lowest(BestOps(pre.net, arg))

\* C4: a take_action entered with carried state on a board with a legal
\* direction raises each table[i][prev_tuples[i]] by
\* alpha * (candidate_best - prev_estimate), candidate_best the largest
\* candidate among the legal directions.
C4_TDUpdate ==
    (Returned /\ pre.train /\ LegalOps(arg) # {}) =>
        \A i \in 1..NumTables :
            Entry(net[i], pre.s_tuples[i]) =
                Entry(pre.net[i], pre.s_tuples[i])
                    + alpha * (MaxCandidate(pre.net, arg) - pre.s_V)

\* C5: a take_action modifies weights only in DECIDED state; the first
\* take_action after construction and after every last_update changes none.
C5_FirstCallNoUpdate ==
    [][ (last' = "take_action" /\ status' = "running"
            /\ last \in {"construct", "last_update"}) => net' = net ]_vars

\* C6: last_update changes each table[i][prev_tuples[i]] by
\* alpha * (0 - prev_estimate) and leaves every other entry unchanged.
C6_FlushAdjusts ==
    Flushed => AdjustedBy(alpha * (0 - pre.s_V))

C6_Witness ==
    /\ Flushed
    /\ pre.s_V > 0
    /\ alpha > 1
    /\ \A i \in 1..NumTables :
          Entry(net[i], pre.s_tuples[i]) < Entry(pre.net[i], pre.s_tuples[i])

\* C7: a take_action on a board with no legal direction returns the null
\* action and changes no entry other than the table[i][prev_tuples[i]] of
\* the carried state, and none at all without carried state.
C7_DeadBoardFrame ==
    (Returned /\ LegalOps(arg) = {}) =>
        /\ ret = -1
        /\ ~pre.train => net = pre.net
        /\ \A i \in 1..NumTables : \A k \in Inspected(i) :
              (~pre.train \/ k # pre.s_tuples[i]) =>
                  Entry(net[i], k) = Entry(pre.net[i], k)

C7_Witness ==
    /\ Returned
    /\ LegalOps(arg) = {}
    /\ pre.train
    /\ net # pre.net

\* C8: get_tuple returns 8 indices, rows 0..3 then columns 0..3, each
\* 4096*d0 + 256*d1 + 16*d2 + d3 of the row's or column's cells.
C8_TupleLayout ==
    last = "get_tuple" =>
        /\ Len(s_tuples) = 8
        /\ \A r \in 1..4 :
              s_tuples[r] = 4096 * best_state[r][1] + 256 * best_state[r][2]
                              + 16 * best_state[r][3] + best_state[r][4]
        /\ \A c \in 1..4 :
              s_tuples[4 + c] = 4096 * best_state[1][c] + 256 * best_state[2][c]
                                  + 16 * best_state[3][c] + best_state[4][c]

C8_Witness ==
    /\ last = "get_tuple"
    /\ best_state[1] # best_state[2]
    /\ best_state[1][2] # best_state[2][1]
    /\ s_tuples[1] # s_tuples[5]

\* C9: on a grid with cells in 0..15 every index get_tuple returns is in
\* 0..65535.
C9_IndexRange ==
    (last = "get_tuple"
        /\ \A r \in 1..4 : \A c \in 1..4 : best_state[r][c] \in 0..MaxCell) =>
        \A i \in 1..Len(s_tuples) : s_tuples[i] \in 0..(TableSize - 1)

C9_Witness ==
    /\ last = "get_tuple"
    /\ \A r \in 1..4 : \A c \in 1..4 : best_state[r][c] = MaxCell
    /\ \A i \in 1..8 : s_tuples[i] = TableSize - 1

\* C10: an adjustment of table[i][tuples[i]], i in 0..7, changes that entry
\* of each table by the same delta and no other entry, and get_V(tuples)
\* grows by 8 * delta.
C10_AdjustAlgebra ==
    ((Returned /\ pre.train) \/ Flushed) =>
        LET delta == Entry(net[1], pre.s_tuples[1])
                        - Entry(pre.net[1], pre.s_tuples[1])
        IN  /\ AdjustedBy(delta)
            /\ get_V(net, pre.s_tuples) = get_V(pre.net, pre.s_tuples) + 8 * delta

C10_Witness ==
    /\ Returned
    /\ pre.train
    /\ Entry(net[1], pre.s_tuples[1]) # Entry(pre.net[1], pre.s_tuples[1])
    /\ get_V(pre.net, pre.s_tuples) # 0

\* C11 (as stated): an agent constructed with no load path configured holds
\* 8 zero tables before its first call.
C11_NoLoadMeansZeroTables ==
    (last = "construct" /\ K_load \notin DOMAIN meta) => net = init_weights

\* C11 (amended): an agent constructed with init configured and no load path
\* holds exactly 8 tables, every entry 0, before its first call.
C11_InitMeansZeroTables ==
    (last = "construct" /\ K_init \in DOMAIN meta /\ K_load \notin DOMAIN meta) =>
        /\ Len(net) = 8
        /\ \A i \in 1..Len(net) :
              /\ DOMAIN net[i] \subseteq 0..(TableSize - 1)
              /\ \A k \in DOMAIN net[i] \cup {0, TableSize - 1} : Entry(net[i], k) = 0

C11_Witness ==
    /\ last = "construct"
    /\ status = "running"
    /\ K_init \in DOMAIN meta
    /\ K_load \notin DOMAIN meta
    /\ calls = 0

C13_OpenFailureExits ==
    /\ (K_load \in DOMAIN meta /\ meta[K_load] \notin DOMAIN Disk0) =>
          (status = "exited" /\ last = "construct" /\ calls = 0 /\ ~train /\ disk = Disk0)
    /\ (last = "destroy" /\ K_save \in DOMAIN meta /\ meta[K_save] \in Unwritable) =>
          (status = "exited" /\ disk = Disk0)

C13_Witness ==
    /\ K_load \in DOMAIN meta
    /\ meta[K_load] \notin DOMAIN Disk0
    /\ status = "exited"
    /\ last = "construct"

\* a token k=value: k is the text before its first "=", value the text after
IsPair(tok, k, v) == tok = k \o << "=" >> \o v /\ \A j \in 1..Len(k) : k[j] # "="

\* the token is stored under key k: it is k=value, or it is k without any "="
HasKey(tok, k) ==
    \/ \E q \in 1..Len(tok) : IsPair(tok, k, SubSeq(tok, q + 1, Len(tok)))
    \/ tok = k /\ \A j \in 1..Len(k) : k[j] # "="

\* in the token sequence ts, the last token stored under each key gives,
\* when it is a k=value token, the value of property(k)
LastPairWins(ts) ==
    \A j \in 1..Len(ts) : \A q \in 1..Len(ts[j]) :
        LET k == SubSeq(ts[j], 1, q - 1)
            v == SubSeq(ts[j], q + 1, Len(ts[j]))
        IN  (IsPair(ts[j], k, v) /\ \A i \in (j + 1)..Len(ts) : ~HasKey(ts[i], k)) =>
                (k \in DOMAIN meta /\ meta[k] = v)

DefaultTokens ==
    << << "n", "a", "m", "e", "=", "u", "n", "k", "n", "o", "w", "n" >>,
       << "r", "o", "l", "e", "=", "u", "n", "k", "n", "o", "w", "n" >> >>

\* C14: after construction property(k) is the value of the last k=value token
\* of the defaults followed by the argument tokens; notify(k=v) sets
\* property(k) to v and changes no other key.
C14_LastTokenWins ==
    /\ last = "construct" =>
          \A ts \in MetaTokenSeqs :
              args = JoinTokens(ts) =>
                  LastPairWins(DefaultTokens \o SelectSeq(ts, LAMBDA t : t # << >>))
    /\ last = "notify" =>
          \A q \in 1..Len(msg) :
              LET k == SubSeq(msg, 1, q - 1)
                  v == SubSeq(msg, q + 1, Len(msg))
              IN  IsPair(msg, k, v) =>
                      /\ meta[k] = v
                      /\ DOMAIN meta = DOMAIN pre.meta \cup {k}
                      /\ \A k2 \in DOMAIN pre.meta \ {k} : meta[k2] = pre.meta[k2]

C14_Witness ==
    /\ last = "notify"
    /\ msg = << "a", "=", "2" >>
    /\ << "a" >> \in DOMAIN pre.meta
    /\ pre.meta[<< "a" >>] = << "1" >>
    /\ meta[<< "a" >>] = << "2" >>
    /\ meta[<< "n", "a", "m", "e" >>] = << "x" >>

\* C15: when a take_action returns a slide, the next take_action returns the
\* null action and last_update follows, the flush adjusts the entries of the
\* tuples of the afterstate chosen by the slide; the null-returning call
\* leaves the carried tuples those of the chosen afterstate.
C15_FlushAdjustsChosen ==
    /\ (Returned /\ ret = -1 /\ chosen.at >= 1 /\ chosen.at = calls - 1) =>
          s_tuples = chosen.tuples
    /\ (Flushed /\ ret = -1 /\ chosen.at >= 1 /\ chosen.at = calls - 2) =>
          pre.s_tuples = chosen.tuples

\* the estimate of the returned direction's afterstate under the weights at
\* the start of the call: the V of candidate_best = Reward + V
SearchV == Candidate(pre.net, arg, ret) - value_gain(arg, ret)

\* the tables whose carried index is also the index of the new carried tuples
SharedTables == { i \in 1..NumTables : pre.train /\ pre.s_tuples[i] = s_tuples[i] }

\* C16 (as stated): the carried estimate is the search's V of the returned
\* direction.
C16_CarriedIsSearchV ==
    (Returned /\ ret # -1) => s_V = SearchV

\* C16 (amended): the carried estimate is the search's V plus the call's TD
\* step alpha * (candidate_best - prev_estimate) once for every table whose
\* updated entry the returned afterstate's tuples index.
C16_CarriedIsSearchVPlusUpdate ==
    (Returned /\ ret # -1) =>
        s_V = SearchV
                + Cardinality(SharedTables)
                    * (IF pre.train
                       THEN alpha * (Candidate(pre.net, arg, ret) - pre.s_V)
                       ELSE 0)

C16_Witness ==
    /\ Returned
    /\ ret # -1
    /\ pre.train
    /\ Cardinality(SharedTables) \in 1..(NumTables - 1)
    /\ s_V # SearchV

\* C17: every access net[i][tuples[i]] of get_V, update_weight and
\* last_update is in bounds in every reachable state.
C17_AccessInBounds ==
    /\ status # "crashed"
    /\ \A i \in 1..Len(s_tuples) : s_tuples[i] \in 0..(TableSize - 1)

\* C18: after a take_action that returned a slide, s_V is the sum of
\* net[i][s_tuples[i]] over the 8 tables as they stand at return, and
\* s_tuples is get_tuple of the returned direction's afterstate.
C18_CarriedMatchesTable ==
    (Returned /\ ret # -1) =>
        /\ s_V = Entry(net[1], s_tuples[1]) + Entry(net[2], s_tuples[2])
                   + Entry(net[3], s_tuples[3]) + Entry(net[4], s_tuples[4])
                   + Entry(net[5], s_tuples[5]) + Entry(net[6], s_tuples[6])
                   + Entry(net[7], s_tuples[7]) + Entry(net[8], s_tuples[8])
        /\ s_tuples = get_tuple(arg[ret].grid)

C18_Witness ==
    /\ Returned
    /\ ret # -1
    /\ net # pre.net
    /\ s_V # 0
    /\ s_V # get_V(pre.net, s_tuples)

====
